---- MODULE Spec2Model ----
(***************************************************************************)
(* Model of src/src/mlp.py: class MLP (construction, feed_forward,         *)
(* get_activations_and_zs, backward, train, process_batch,                 *)
(* initialize_mini_batches, predict).                                      *)
(*                                                                         *)
(* Numbers.  numpy computes in float64; the model computes exactly in the  *)
(* finite field of integers modulo Modulus (a prime larger than any batch  *)
(* size), so that +, -, * and the division by len(inputs) are all exact    *)
(* and the reachable parameter values stay finite.  Every polynomial       *)
(* identity of real arithmetic holds in this field.                        *)
(*                                                                         *)
(* Arrays.  An ndarray of rank 2 is a record [r, c, v]: r rows, c columns  *)
(* and v the sequence of rows.  The shape survives r = 0 or c = 0, as in   *)
(* numpy.                                                                  *)
(*                                                                         *)
(* DataFrames.  A DataFrame is a sequence of rows [idx, x, y]: idx is the  *)
(* row's index label, x the feature columns, y the column named "target".  *)
(***************************************************************************)
EXTENDS Integers, Sequences, FiniteSets, TLC

\* ------------------------------------------------------------------ bounds
MaxRows == 3
MaxEpochs == 2

\* ----------------------------------------------------------------- numbers
Num == 0 .. 4
Modulus == Cardinality(Num)

Norm(x) == x % Modulus

\* x / k for an integer count k with 0 < k < Modulus
DivBy(x, k) == CHOOSE q \in Num : Norm(q * k) = Norm(x)

\* ------------------------------------------------------------------ arrays
Mat(r, c, f(_, _)) ==
    [r |-> r, c |-> c, v |-> [i \in 1 .. r |-> [j \in 1 .. c |-> f(i, j)]]]

shape(A) == <<A.r, A.c>>

\* np.zeros(shape)
zeros(s) == Mat(s[1], s[2], LAMBDA i, j : 0)

\* A.transpose()
transpose(A) == Mat(A.c, A.r, LAMBDA i, j : A.v[j][i])

RECURSIVE DotSum(_, _, _, _, _)
DotSum(A, B, i, j, k) ==
    IF k = 0 THEN 0
    ELSE Norm(DotSum(A, B, i, j, k - 1) + A.v[i][k] * B.v[k][j])

\* np.dot(A, B) raises ValueError unless the inner dimensions agree
CanDot(A, B) == A.c = B.r

dot(A, B) == Mat(A.r, B.c, LAMBDA i, j : DotSum(A, B, i, j, A.c))

\* numpy broadcasting of two rank-2 shapes: each dimension equal, or one of
\* them 1
CanBroadcast(A, B) ==
    /\ (A.r = B.r \/ A.r = 1 \/ B.r = 1)
    /\ (A.c = B.c \/ A.c = 1 \/ B.c = 1)

BDim(m, n) == IF m = 1 THEN n ELSE m

BAt(A, i, j) == A.v[IF A.r = 1 THEN 1 ELSE i][IF A.c = 1 THEN 1 ELSE j]

\* A + B, A - B, A * B (elementwise, broadcast)
add(A, B) ==
    Mat(BDim(A.r, B.r), BDim(A.c, B.c),
        LAMBDA i, j : Norm(BAt(A, i, j) + BAt(B, i, j)))

sub(A, B) ==
    Mat(BDim(A.r, B.r), BDim(A.c, B.c),
        LAMBDA i, j : Norm(BAt(A, i, j) - BAt(B, i, j)))

mul(A, B) ==
    Mat(BDim(A.r, B.r), BDim(A.c, B.c),
        LAMBDA i, j : Norm(BAt(A, i, j) * BAt(B, i, j)))

\* s * A for a scalar s, and A / k for a count k
scale(s, A) == Mat(A.r, A.c, LAMBDA i, j : Norm(s * A.v[i][j]))

divide(A, k) == Mat(A.r, A.c, LAMBDA i, j : DivBy(A.v[i][j], k))

\* a.reshape(a.shape[0], 1) of a rank-1 array a
reshape(a) == Mat(Len(a), 1, LAMBDA i, j : a[i])

\* ------------------------------------------- pluggable functions (inputs)
\* The functions handed to __init__.  The model fixes one smooth choice:
\* square activation, linear output, squared-error loss derivative, a target
\* encoder that wraps the label in a 1x1 array, deterministic initializers.
BadLabel == 0 - 1

activation(z) == mul(z, z)

activation_derv(z) == scale(2, z)

output_activ(z) == z

output_derv(z) == Mat(z.r, z.c, LAMBDA i, j : 1)

target_fit(cls) == Mat(1, 1, LAMBDA i, j : cls)

\* loss_derv rejects a label that is not a number, and numpy rejects
\* operands that do not broadcast
LossDervRaises(a, t) == t.v[1][1] = BadLabel \/ ~CanBroadcast(a, t)

loss_derv(a, t) == sub(a, t)

\* an initializer built on numpy raises ValueError for a negative dimension
InitRaises(n) == n < 0

\* weight_init as it would be with its two dimensions exchanged
weight_init_swapped(nout, nin) == Mat(nin, nout, LAMBDA i, j : Norm(i + j))

weight_init(nout, nin) == Mat(nout, nin, LAMBDA i, j : Norm(i + j))

bias_init(n) == Mat(n, 1, LAMBDA i, j : Norm(i))

\* ------------------------------------------------------------ construction
\* zip(lsizes[1:], lsizes[:-1]) has max(len(lsizes) - 1, 0) pairs
NumLayers(lsizes) == IF Len(lsizes) = 0 THEN 0 ELSE Len(lsizes) - 1

InitWeights(lsizes) ==
    [l \in 1 .. NumLayers(lsizes) |-> weight_init(lsizes[l + 1], lsizes[l])]

InitBiases(lsizes) ==
    [l \in 1 .. NumLayers(lsizes) |-> bias_init(lsizes[l + 1])]

ConstructRaises(lsizes) ==
    \E l \in 1 .. NumLayers(lsizes) :
        InitRaises(lsizes[l + 1]) \/ InitRaises(lsizes[l])

\* ----------------------------------------------------------- forward pass
\* One affine step z = np.dot(w, a) + b; ok is FALSE where numpy raises.
CanAffine(w, a, b) == CanDot(w, a) /\ CanBroadcast(dot(w, a), b)

Affine(w, a, b) == add(dot(w, a), b)

\* the loop over zip(self.weights[:-1], self.biases[:-1]), after n rounds
RECURSIVE HiddenLayers(_, _, _, _)
HiddenLayers(W, B, a0, n) ==
    IF n = 0 THEN [ok |-> TRUE, activs |-> <<a0>>, zs |-> <<>>]
    ELSE LET t == HiddenLayers(W, B, a0, n - 1)
         IN  IF ~t.ok THEN t
             ELSE IF ~CanAffine(W[n], t.activs[n], B[n])
                  THEN [ok |-> FALSE, activs |-> t.activs, zs |-> t.zs]
                  ELSE LET z == Affine(W[n], t.activs[n], B[n])
                       IN  [ok |-> TRUE,
                            activs |-> Append(t.activs, activation(z)),
                            zs |-> Append(t.zs, z)]

\* get_activations_and_zs(a): self.weights[-1] raises IndexError on an empty
\* list; zip stops at the shorter of weights[:-1] and biases[:-1]
get_activations_and_zs(W, B, a) ==
    LET L == Len(W)
        h == IF Len(W) = 0 \/ Len(B) = 0 THEN 0
             ELSE IF Len(W) <= Len(B) THEN Len(W) - 1 ELSE Len(B) - 1
        t == HiddenLayers(W, B, reshape(a), h)
    IN  IF L = 0 \/ Len(B) = 0 \/ ~t.ok
        THEN [ok |-> FALSE, activs |-> <<>>, zs |-> <<>>]
        ELSE LET al == t.activs[Len(t.activs)]
             IN  IF ~CanAffine(W[L], al, B[Len(B)])
                 THEN [ok |-> FALSE, activs |-> <<>>, zs |-> <<>>]
                 ELSE LET z == Affine(W[L], al, B[Len(B)])
                      IN  [ok |-> TRUE,
                           activs |-> Append(t.activs, output_activ(z)),
                           zs |-> Append(t.zs, z)]

\* feed_forward(a): the same recurrence keeping only the running activation
RECURSIVE ForwardHidden(_, _, _, _)
ForwardHidden(W, B, a0, n) ==
    IF n = 0 THEN [ok |-> TRUE, a |-> a0]
    ELSE LET t == ForwardHidden(W, B, a0, n - 1)
         IN  IF ~t.ok THEN t
             ELSE IF ~CanAffine(W[n], t.a, B[n]) THEN [ok |-> FALSE, a |-> t.a]
                  ELSE [ok |-> TRUE, a |-> activation(Affine(W[n], t.a, B[n]))]

feed_forward(W, B, a) ==
    LET L == Len(W)
        h == IF Len(W) = 0 \/ Len(B) = 0 THEN 0
             ELSE IF Len(W) <= Len(B) THEN Len(W) - 1 ELSE Len(B) - 1
        t == ForwardHidden(W, B, reshape(a), h)
    IN  IF L = 0 \/ Len(B) = 0 \/ ~t.ok THEN [ok |-> FALSE, a |-> zeros(<<0, 0>>)]
        ELSE IF ~CanAffine(W[L], t.a, B[Len(B)])
             THEN [ok |-> FALSE, a |-> zeros(<<0, 0>>)]
             ELSE [ok |-> TRUE, a |-> output_activ(Affine(W[L], t.a, B[Len(B)]))]

\* ---------------------------------------------------------- backward pass
\* An intermediate result is bound through a singleton set
\* ({e(x) : x \in {v}}), so that it is computed once where it is used often.
NoGradients ==
    [ok |-> FALSE, loss_derv |-> zeros(<<0, 0>>),
     weight_dervs |-> <<>>, bias_dervs |-> <<>>]

\* lines 89-93, one round of the loop for layer i (1-based): the new
\* loss_derv ld is stored as the gradients of layer i
LayerGradients(g, tr, i, ld) ==
    IF ~CanDot(ld, transpose(tr.activs[i])) THEN NoGradients
    ELSE [ok |-> TRUE,
          loss_derv |-> ld,
          weight_dervs |->
              [g.weight_dervs EXCEPT ![i] = dot(ld, transpose(tr.activs[i]))],
          bias_dervs |-> [g.bias_dervs EXCEPT ![i] = ld]]

BackStep(W, tr, i, g) ==
    IF ~g.ok THEN g
    ELSE IF ~CanDot(transpose(W[i + 1]), g.loss_derv) THEN NoGradients
    ELSE CHOOSE r \in
            {IF ~CanBroadcast(p, d) THEN NoGradients
             ELSE CHOOSE q \in {LayerGradients(g, tr, i, ld) : ld \in {mul(p, d)}} :
                     TRUE :
                p \in {dot(transpose(W[i + 1]), g.loss_derv)},
                d \in {activation_derv(tr.zs[i])}} : TRUE

\* the loop "for i in range(len(self.weights) - 2, -1, -1)", run down to
\* layer i (1-based) from the gradients g0 of the output layer
RECURSIVE BackLoop(_, _, _, _, _)
BackLoop(W, tr, i, top, g0) ==
    IF i >= top THEN g0
    ELSE CHOOSE r \in {BackStep(W, tr, i, g) :
                         g \in {BackLoop(W, tr, i + 1, top, g0)}} : TRUE

\* lines 80-87: zeroed gradient lists, then the output layer's entries from
\* loss_derv ld
OutputGradients(W, B, tr, ld) ==
    IF ~CanDot(ld, transpose(tr.activs[Len(tr.activs) - 1])) THEN NoGradients
    ELSE [ok |-> TRUE,
          loss_derv |-> ld,
          weight_dervs |->
              [[l \in 1 .. Len(W) |-> zeros(shape(W[l]))]
                 EXCEPT ![Len(W)] =
                    dot(ld, transpose(tr.activs[Len(tr.activs) - 1]))],
          bias_dervs |->
              [[l \in 1 .. Len(B) |-> zeros(shape(B[l]))]
                 EXCEPT ![Len(B)] = ld]]

BackFrom(W, B, tr, targets) ==
    IF ~tr.ok THEN NoGradients
    ELSE IF LossDervRaises(tr.activs[Len(tr.activs)], targets) THEN NoGradients
    ELSE CHOOSE r \in
            {BackLoop(W, tr, 1, Len(W), g0) :
                g0 \in {OutputGradients(W, B, tr, ld) :
                          ld \in {mul(loss_derv(tr.activs[Len(tr.activs)],
                                                targets),
                                      output_derv(tr.zs[Len(tr.zs)]))}}} : TRUE

\* backward(a, targets): [ok, weight_dervs, bias_dervs]
backward(W, B, a, targets) ==
    CHOOSE g \in {BackFrom(W, B, tr, targets) :
                    tr \in {get_activations_and_zs(W, B, a)}} : TRUE

\* ------------------------------------------------------------------ inputs
\* layers_sizes handed to the constructor: valid ones, and the degenerate
\* ones (empty, one element, a zero or a negative size)
LayerChoices ==
    {<<>>, <<1>>, <<1, 1>>, <<1, 2, 1>>, <<2, 1>>, <<1, 0>>, <<1, 0 - 1>>}

ValidLayers(ls) == Len(ls) >= 2 /\ \A k \in 1 .. Len(ls) : ls[k] > 0

\* Row j of a training DataFrame: one feature column and the column "target".
\* dup gives the frame a non-unique index (labels 0,0,1,1,...) instead of the
\* default 0,1,2,...; bad is the position of a row whose label loss_derv
\* rejects (0: none).
Row(j, dup, bad) ==
    [idx |-> IF dup THEN (j - 1) \div 2 ELSE j - 1,
     x |-> <<j>>,
     y |-> IF j = bad THEN BadLabel ELSE j % 3]

Datasets ==
    {[j \in 1 .. n |-> Row(j, d[1], d[2])] :
        n \in 0 .. MaxRows, d \in BOOLEAN \X (0 .. MaxRows)}

Columns == {"target"}

ClassColumns == {"target", "label"}

BatchSizes == (0 - 1) .. MaxRows

LearningRates == {2}

\* prediction frames: rows of one feature column
PredictFrames ==
    {<<>>, <<<<1>>>>, <<<<1>>, <<2>>>>, <<<<2>>, <<1>>, <<2>>>>}

ForwardInputs == {<<1>>, <<2>>, <<1, 2>>}

\* ------------------------------------------------------------------- state
VARIABLES
    pc,               \* position of the caller ("new", "idle" before and
                      \* "trained" after its one call of train, "raised")
                      \* or of train
    layers_sizes,     \* the constructor's argument
    weights, biases,  \* self.weights, self.biases
    training_data, epochs, mini_batch_size, learning_rate, class_column,
    epoch,            \* train: completed iterations of the epoch loop
    t_data,           \* initialize_mini_batches: rows not yet drawn
    mini_batches,     \* the list of batches of the current epoch
    b,                \* train: batches of this epoch already processed
    weight_gradient, bias_gradient,  \* process_batch accumulators
    i,                \* process_batch: examples already accumulated
    batch_start,      \* the parameters on entry to process_batch
    stdout,           \* the ordinals printed by the current train call
    ret,              \* the value returned by feed_forward / predict
    err               \* the exception that reached the caller

frame == <<training_data, epochs, mini_batch_size, learning_rate, class_column>>

locals == <<epoch, t_data, mini_batches, b, weight_gradient, bias_gradient, i,
            batch_start>>

params == <<weights, biases>>

vars == <<pc, layers_sizes, params, frame, locals, stdout, ret, err>>

NoBatchStart == [weights |-> <<>>, biases |-> <<>>]

\* ret: the call that returned last, its argument and its value
NoReturn == [op |-> "none", X |-> <<>>, value |-> <<>>]

Init ==
    /\ pc = "new"
    /\ layers_sizes = <<>>
    /\ weights = <<>>
    /\ biases = <<>>
    /\ training_data = <<>>
    /\ epochs = 0
    /\ mini_batch_size = 0
    /\ learning_rate = 0
    /\ class_column = "target"
    /\ epoch = 0
    /\ t_data = <<>>
    /\ mini_batches = <<>>
    /\ b = 0
    /\ weight_gradient = <<>>
    /\ bias_gradient = <<>>
    /\ i = 0
    /\ batch_start = NoBatchStart
    /\ stdout = <<>>
    /\ ret = NoReturn
    /\ err = "none"

\* ---------------------------------------------------------------- __init__
Construct ==
    /\ pc = "new"
    /\ \E ls \in LayerChoices :
        /\ layers_sizes' = ls
        /\ IF ConstructRaises(ls)
           THEN /\ pc' = "raised"
                /\ err' = "ValueError"
                /\ UNCHANGED params
           ELSE /\ pc' = "idle"
                /\ weights' = InitWeights(ls)
                /\ biases' = InitBiases(ls)
                /\ UNCHANGED err
    /\ UNCHANGED <<frame, locals, stdout, ret>>

\* ------------------------------------------------- feed_forward and predict
\* FeedForwardCall as it would be if the pass stored its running activation
\* into the first layer's bias
FeedForwardStoring ==
    /\ pc \in {"idle", "trained"}
    /\ \E a \in ForwardInputs :
        LET r == feed_forward(weights, biases, a)
        IN  IF r.ok
            THEN /\ ret' = [op |-> "feed_forward", X |-> a, value |-> r.a]
                 /\ biases' = [biases EXCEPT ![1] = add(reshape(a), biases[1])]
                 /\ UNCHANGED <<pc, err>>
            ELSE /\ pc' = "raised"
                 /\ err' = "ShapeError"
                 /\ UNCHANGED <<ret, biases>>
    /\ UNCHANGED <<layers_sizes, weights, frame, locals, stdout>>

FeedForwardCall ==
    /\ pc \in {"idle", "trained"}
    /\ \E a \in ForwardInputs :
        LET r == feed_forward(weights, biases, a)
        IN  IF r.ok
            THEN /\ ret' = [op |-> "feed_forward", X |-> a, value |-> r.a]
                 /\ UNCHANGED <<pc, err>>
            ELSE /\ pc' = "raised"
                 /\ err' = "ShapeError"
                 /\ UNCHANGED ret
    /\ UNCHANGED <<layers_sizes, params, frame, locals, stdout>>

\* the loop "for _, row in X.iterrows()" after n rows
RECURSIVE PredictLoop(_, _, _, _)
PredictLoop(W, B, X, n) ==
    IF n = 0 THEN [ok |-> TRUE, predictions |-> <<>>]
    ELSE LET p == PredictLoop(W, B, X, n - 1)
             r == feed_forward(W, B, X[n])
         IN  IF ~p.ok THEN p
             ELSE IF ~r.ok THEN [ok |-> FALSE, predictions |-> p.predictions]
                  ELSE [ok |-> TRUE, predictions |-> Append(p.predictions, r.a)]

\* predict as it would be if it walked the frame from its last row
predict_reversed(W, B, X) ==
    PredictLoop(W, B, [j \in 1 .. Len(X) |-> X[Len(X) + 1 - j]], Len(X))

predict(W, B, X) == PredictLoop(W, B, X, Len(X))

PredictCall ==
    /\ pc \in {"idle", "trained"}
    /\ \E X \in PredictFrames :
        LET r == predict(weights, biases, X)
        IN  IF r.ok
            THEN /\ ret' = [op |-> "predict", X |-> X, value |-> r.predictions]
                 /\ UNCHANGED <<pc, err>>
            ELSE /\ pc' = "raised"
                 /\ err' = "ShapeError"
                 /\ UNCHANGED ret
    /\ UNCHANGED <<layers_sizes, params, frame, locals, stdout>>

\* -------------------------------------------------------------------- train
TrainCall ==
    /\ pc = "idle"
    /\ \E d \in Datasets, e \in 0 .. MaxEpochs, m \in BatchSizes,
          lr \in LearningRates, cc \in ClassColumns :
        /\ training_data' = d
        /\ epochs' = e
        /\ mini_batch_size' = m
        /\ learning_rate' = lr
        /\ class_column' = cc
    /\ pc' = "epoch_loop"
    /\ epoch' = 0
    /\ ret' = NoReturn
    /\ UNCHANGED <<layers_sizes, params, t_data, mini_batches, b,
                   weight_gradient, bias_gradient, i, batch_start, stdout, err>>

\* "for epoch in range(epochs)": another epoch, entering
\* initialize_mini_batches with t_data bound to the whole training_data
EpochStart ==
    /\ pc = "epoch_loop"
    /\ epoch < epochs
    /\ pc' = "init_batches"
    /\ t_data' = training_data
    /\ mini_batches' = <<>>
    /\ UNCHANGED <<layers_sizes, params, frame, epoch, b, weight_gradient,
                   bias_gradient, i, batch_start, stdout, ret, err>>

\* range(epochs) is exhausted: train returns None
TrainReturn ==
    /\ pc = "epoch_loop"
    /\ epoch >= epochs
    /\ pc' = "trained"
    /\ training_data' = <<>>
    /\ mini_batch_size' = 0
    /\ learning_rate' = 0
    /\ class_column' = "target"
    /\ epoch' = 0
    /\ mini_batches' = <<>>
    /\ batch_start' = NoBatchStart
    /\ ret' = [op |-> "train", X |-> <<>>, value |-> <<>>]
    /\ UNCHANGED <<layers_sizes, params, epochs, t_data, b, weight_gradient,
                   bias_gradient, i, stdout, err>>

Min(m, n) == IF m <= n THEN m ELSE n

\* t_data.sample(n): any n distinct rows of t_data.  pandas also shuffles
\* the n rows; process_batch only sums over the rows of a batch, and the
\* model keeps them in frame order.
Samples(t, n) ==
    {[k \in 1 .. n |-> t[s[k]]] :
        s \in {f \in [1 .. n -> 1 .. Len(t)] :
                 \A k1, k2 \in 1 .. n : k1 < k2 => f[k1] < f[k2]}}

\* t_data.drop(mini_batch.index): every row whose label is among the labels
Labels(batch) == {batch[k].idx : k \in 1 .. Len(batch)}

RECURSIVE Keep(_, _, _)
Keep(t, labels, n) ==
    IF n = 0 THEN <<>>
    ELSE IF t[n].idx \in labels THEN Keep(t, labels, n - 1)
         ELSE Append(Keep(t, labels, n - 1), t[n])

drop(t, labels) == Keep(t, labels, Len(t))

\* one round of "while not t_data.empty"
SampleBatch ==
    /\ pc = "init_batches"
    /\ Len(t_data) > 0
    /\ Len(mini_batches) <= MaxRows
    /\ LET n == Min(mini_batch_size, Len(t_data))
       IN  IF n < 0
           THEN /\ pc' = "raised"
                /\ err' = "ValueError"
                /\ UNCHANGED <<t_data, mini_batches>>
           ELSE /\ \E mini_batch \in Samples(t_data, n) :
                     /\ mini_batches' = Append(mini_batches, mini_batch)
                     /\ t_data' = drop(t_data, Labels(mini_batch))
                /\ UNCHANGED <<pc, err>>
    /\ UNCHANGED <<layers_sizes, params, frame, epoch, b, weight_gradient,
                   bias_gradient, i, batch_start, stdout, ret>>

\* t_data.empty: initialize_mini_batches returns and the batch loop starts
BatchesReady ==
    /\ pc = "init_batches"
    /\ Len(t_data) = 0
    /\ pc' = "batch_loop"
    /\ b' = 0
    /\ UNCHANGED <<layers_sizes, params, frame, epoch, t_data, mini_batches,
                   weight_gradient, bias_gradient, i, batch_start, stdout,
                   ret, err>>

\* process_batch, lines 130-134: zeroed accumulators, then batch[class_column]
ProcessBatchEnter ==
    /\ pc = "batch_loop"
    /\ b < Len(mini_batches)
    /\ weight_gradient' = [l \in 1 .. Len(weights) |-> zeros(shape(weights[l]))]
    /\ bias_gradient' = [l \in 1 .. Len(biases) |-> zeros(shape(biases[l]))]
    /\ batch_start' = [weights |-> weights, biases |-> biases]
    /\ i' = 0
    /\ IF class_column \in Columns
       THEN pc' = "examples" /\ UNCHANGED err
       ELSE pc' = "raised" /\ err' = "KeyError"
    /\ UNCHANGED <<layers_sizes, params, frame, epoch, t_data, mini_batches,
                   b, stdout, ret>>

\* [wg + wd for wg, wd in zip(weight_gradient, weights_dervs)]
Accumulate(grad, dervs) ==
    [l \in 1 .. Min(Len(grad), Len(dervs)) |-> add(grad[l], dervs[l])]

\* Example as it would be if each example's gradient were applied at once
ExampleOnline ==
    /\ pc = "examples"
    /\ i < Len(mini_batches[b + 1])
    /\ LET row == mini_batches[b + 1][i + 1]
           g == backward(weights, biases, row.x, target_fit(row.y))
       IN  IF g.ok
           THEN /\ weight_gradient' = Accumulate(weight_gradient, g.weight_dervs)
                /\ bias_gradient' = Accumulate(bias_gradient, g.bias_dervs)
                /\ weights' = [l \in 1 .. Len(weights) |->
                                 sub(weights[l],
                                     scale(learning_rate, g.weight_dervs[l]))]
                /\ biases' = [l \in 1 .. Len(biases) |->
                                sub(biases[l],
                                    scale(learning_rate, g.bias_dervs[l]))]
                /\ i' = i + 1
                /\ UNCHANGED <<pc, err>>
           ELSE /\ pc' = "raised"
                /\ err' = "BackwardError"
                /\ UNCHANGED <<weight_gradient, bias_gradient, i, params>>
    /\ UNCHANGED <<layers_sizes, frame, epoch, t_data, mini_batches,
                   b, batch_start, stdout, ret>>

\* one round of "for i in range(len(classes))"
Example ==
    /\ pc = "examples"
    /\ i < Len(mini_batches[b + 1])
    /\ LET row == mini_batches[b + 1][i + 1]
           g == backward(weights, biases, row.x, target_fit(row.y))
       IN  IF g.ok
           THEN /\ weight_gradient' = Accumulate(weight_gradient, g.weight_dervs)
                /\ bias_gradient' = Accumulate(bias_gradient, g.bias_dervs)
                /\ i' = i + 1
                /\ UNCHANGED <<pc, err>>
           ELSE /\ pc' = "raised"
                /\ err' = "BackwardError"
                /\ UNCHANGED <<weight_gradient, bias_gradient, i>>
    /\ UNCHANGED <<layers_sizes, params, frame, epoch, t_data, mini_batches,
                   b, batch_start, stdout, ret>>

\* weight - learning_rate * w_grad / len(inputs), over zip(weights, gradient)
Step(ps, grads, lr, k) ==
    [l \in 1 .. Min(Len(ps), Len(grads)) |->
        sub(ps[l], divide(scale(lr, grads[l]), k))]

\* Update as it would be if it averaged over mini_batch_size
UpdateByBatchSize ==
    /\ pc = "examples"
    /\ i >= Len(mini_batches[b + 1])
    /\ weights' = Step(weights, weight_gradient, learning_rate,
                       mini_batch_size)
    /\ biases' = Step(biases, bias_gradient, learning_rate, mini_batch_size)
    /\ b' = b + 1
    /\ pc' = "batch_loop"
    /\ UNCHANGED <<layers_sizes, frame, epoch, t_data, mini_batches,
                   weight_gradient, bias_gradient, i, batch_start, stdout,
                   ret, err>>

\* lines 143-150: the gradient-descent update that ends process_batch
Update ==
    /\ pc = "examples"
    /\ i >= Len(mini_batches[b + 1])
    /\ weights' = Step(weights, weight_gradient, learning_rate,
                       Len(mini_batches[b + 1]))
    /\ biases' = Step(biases, bias_gradient, learning_rate,
                      Len(mini_batches[b + 1]))
    /\ b' = b + 1
    /\ pc' = "batch_loop"
    /\ UNCHANGED <<layers_sizes, frame, epoch, t_data, mini_batches,
                   weight_gradient, bias_gradient, i, batch_start, stdout,
                   ret, err>>

\* EpochCompleted as it would be if it printed the loop variable itself
EpochCompletedZeroBased ==
    /\ pc = "batch_loop"
    /\ b >= Len(mini_batches)
    /\ stdout' = Append(stdout, epoch)
    /\ epoch' = epoch + 1
    /\ pc' = "epoch_loop"
    /\ UNCHANGED <<layers_sizes, params, frame, t_data, mini_batches, b,
                   weight_gradient, bias_gradient, i, batch_start, ret, err>>

\* print(f"Epoch {epoch + 1} completed.")
EpochCompleted ==
    /\ pc = "batch_loop"
    /\ b >= Len(mini_batches)
    /\ stdout' = Append(stdout, epoch + 1)
    /\ epoch' = epoch + 1
    /\ pc' = "epoch_loop"
    /\ UNCHANGED <<layers_sizes, params, frame, t_data, mini_batches, b,
                   weight_gradient, bias_gradient, i, batch_start, ret, err>>

Next ==
    \/ Construct
    \/ FeedForwardCall
    \/ PredictCall
    \/ TrainCall
    \/ EpochStart
    \/ TrainReturn
    \/ SampleBatch
    \/ BatchesReady
    \/ ProcessBatchEnter
    \/ Example
    \/ Update
    \/ EpochCompleted

Spec == Init /\ [][Next]_vars

\* ================================================================== claims
InTrain ==
    pc \in {"epoch_loop", "init_batches", "batch_loop", "examples"}

\* the batches of the current epoch are complete
Partitioned == pc \in {"batch_loop", "examples"}

UniqueIndex(d) ==
    \A j1, j2 \in 1 .. Len(d) : d[j1].idx = d[j2].idx => j1 = j2

\* the places (batch, position) where row r occurs in the batches
Places(bs, r) ==
    {p \in (1 .. Len(bs)) \X (1 .. MaxRows) :
        p[2] <= Len(bs[p[1]]) /\ bs[p[1]][p[2]] = r}

BatchCoverage(d, bs, B) ==
    LET N == Len(d)
    IN  /\ Len(bs) = (N + B - 1) \div B
        /\ \A k \in 1 .. Len(bs) :
              Len(bs[k]) = IF k < Len(bs) THEN B ELSE N - B * (Len(bs) - 1)
        /\ \A j \in 1 .. N : Cardinality(Places(bs, d[j])) = 1

\* C1: in every epoch, for every dataset of N >= 1 rows and every
\* mini_batch_size B >= 1, initialize_mini_batches yields ceil(N/B) batches,
\* all of size B except a last one of the remaining size, and every row of
\* the dataset is in exactly one of them.
C1_BatchCoverage ==
    (Partitioned /\ mini_batch_size >= 1 /\ Len(training_data) >= 1)
        => BatchCoverage(training_data, mini_batches, mini_batch_size)

\* The same statement for the frames whose index labels are unique: the case
\* in which drop(mini_batch.index) removes exactly the sampled rows.
BatchCoverageUniqueIndex ==
    (Partitioned /\ mini_batch_size >= 1 /\ Len(training_data) >= 1
       /\ UniqueIndex(training_data))
        => BatchCoverage(training_data, mini_batches, mini_batch_size)

BatchCoverageUniqueIndexWitness ==
    /\ Partitioned
    /\ epoch = 1
    /\ UniqueIndex(training_data)
    /\ Len(training_data) = 3
    /\ mini_batch_size = 2
    /\ Len(mini_batches) = 2

\* C2: when the backward pass of an example fails inside process_batch, the
\* error reaches the caller of train and weights and biases are exactly the
\* values held when that batch was entered.
C2_AllOrNothing ==
    (pc = "raised" /\ err = "BackwardError")
        => /\ weights = batch_start.weights
           /\ biases = batch_start.biases

\* a batch fails at a later example, after an earlier one's gradient was
\* accumulated
C2_Witness ==
    /\ pc = "raised"
    /\ err = "BackwardError"
    /\ i >= 1
    /\ \E l \in 1 .. Len(weight_gradient) :
          weight_gradient[l] # zeros(shape(weight_gradient[l]))

\* C3: train with mini_batch_size <= 0 on a non-empty dataset fails: it never
\* returns normally, never changes a parameter, and never completes a round
\* of the partitioning loop that leaves the remaining rows as they were (a
\* round that would repeat forever).  Stated for the calls that reach the
\* partitioning loop (epochs >= 1).
C3_NonPositiveBatchFails ==
    [][(InTrain /\ epochs >= 1 /\ mini_batch_size <= 0
          /\ Len(training_data) > 0)
          => /\ pc' # "trained"
             /\ UNCHANGED params
             /\ ~(pc = "init_batches" /\ pc' = "init_batches"
                    /\ t_data' = t_data)]_vars

\* C4: construction fails whenever layers_sizes has fewer than 2 elements or
\* a size <= 0; no network with empty or zero-dimension lists is produced.
C4_ConstructionRejects ==
    (pc # "new" /\ ~ValidLayers(layers_sizes))
        => pc = "raised" /\ err = "ValueError"

\* C5: train fails whenever class_column names no column of the dataset, for
\* every dataset and every epochs: it never returns normally and never
\* changes a parameter.
C5_MissingLabelFails ==
    [][(InTrain /\ class_column \notin Columns)
          => pc' # "trained" /\ UNCHANGED params]_vars

\* the update step that ends process_batch is about to run
AtUpdate == pc = "examples" /\ i >= Len(mini_batches[b + 1])

\* C6: weights and biases are written only by the update step at the end of
\* process_batch: every step of feed_forward, predict, backward (one per
\* example), initialize_mini_batches and of the loops of train leaves them
\* as they are.
C6_OnlyUpdateWrites ==
    [][(pc # "new" /\ ~AtUpdate) => UNCHANGED params]_vars

\* predict has returned on a network that a batch update changed, and the
\* parameters are still the ones that update left
C6_Witness ==
    /\ pc = "trained"
    /\ ret.op = "predict"
    /\ Len(ret.value) >= 2
    /\ weights # InitWeights(layers_sizes)

ShapesBy(ls, W, B) ==
    /\ Len(W) = Len(ls) - 1
    /\ Len(B) = Len(ls) - 1
    /\ \A l \in 1 .. Len(ls) - 1 :
          /\ shape(W[l]) = <<ls[l + 1], ls[l]>>
          /\ shape(B[l]) = <<ls[l + 1], 1>>

\* C7: for valid layers_sizes, in every state after construction,
\* len(weights) = len(biases) = len(layers_sizes) - 1, weights[i] has shape
\* (layers_sizes[i+1], layers_sizes[i]) and biases[i] has layers_sizes[i+1]
\* entries; the accumulators and the gradients backward returns for the
\* examples of the current batch have the same shapes.
C7_Shapes ==
    (pc # "new" /\ ValidLayers(layers_sizes))
        => /\ ShapesBy(layers_sizes, weights, biases)
           /\ pc = "examples"
                => /\ ShapesBy(layers_sizes, weight_gradient, bias_gradient)
                   /\ \A k \in 1 .. Len(mini_batches[b + 1]) :
                         LET row == mini_batches[b + 1][k]
                             g == backward(weights, biases, row.x,
                                           target_fit(row.y))
                         IN  g.ok => ShapesBy(layers_sizes, g.weight_dervs,
                                              g.bias_dervs)

\* a network with a hidden layer of another width than its input and output,
\* after updates
C7_Witness ==
    /\ pc = "trained"
    /\ layers_sizes = <<1, 2, 1>>
    /\ weights # InitWeights(layers_sizes)
    /\ Len(stdout) >= 2

\* C8: a train call that does not fail prints exactly one ordinal per epoch,
\* 1, 2, ..., epochs in this order and nothing else; each is printed when
\* every batch of its epoch has been updated, and a batch is updated only
\* when the ordinals of all earlier epochs, and no other, have been printed.
C8_EpochSignals ==
    /\ [](/\ stdout = [k \in 1 .. Len(stdout) |-> k]
          /\ InTrain => Len(stdout) = epoch
          /\ pc = "trained" => Len(stdout) = epochs)
    /\ [][/\ stdout' # stdout
             => /\ pc = "batch_loop"
                /\ b = Len(mini_batches)
                /\ stdout' = Append(stdout, epoch + 1)
          /\ b' = b + 1 => b < Len(mini_batches) /\ stdout' = stdout]_vars

\* two epochs of two batches each have completed
C8_Witness ==
    /\ pc = "trained"
    /\ epochs = 2
    /\ stdout = <<1, 2>>
    /\ b = 2

\* the sum over the first n examples of a batch of entry (r, c) of the
\* layer-l gradient (of weights if w, else of biases), at parameters W, B
RECURSIVE GradSum(_, _, _, _, _, _, _, _)
GradSum(W, B, batch, n, w, l, r, c) ==
    IF n = 0 THEN 0
    ELSE LET g == backward(W, B, batch[n].x, target_fit(batch[n].y))
             d == IF w THEN g.weight_dervs[l] ELSE g.bias_dervs[l]
         IN  Norm(GradSum(W, B, batch, n - 1, w, l, r, c) + d.v[r][c])

\* old - learning_rate * (sum over the batch) / k, entry by entry
MeanStep(W, B, batch, w, l) ==
    LET old == IF w THEN W[l] ELSE B[l]
    IN  Mat(old.r, old.c,
            LAMBDA r, c :
                Norm(old.v[r][c]
                     - learning_rate
                       * DivBy(GradSum(W, B, batch, Len(batch), w, l, r, c),
                               Len(batch))))

PartialSum(W, B, batch, n, w, l) ==
    LET old == IF w THEN W[l] ELSE B[l]
    IN  Mat(old.r, old.c,
            LAMBDA r, c : GradSum(W, B, batch, n, w, l, r, c))

\* C9: while a batch is processed the parameters stay those of its start and
\* the accumulators hold the sum, from zero, of the gradients of the examples
\* done so far, each taken at those parameters; the update replaces every
\* Weight[l] by Weight_old[l] - learning_rate * (sum over the k examples of
\* the batch) / k and every Bias[l] likewise, k the batch's own size.
C9_MeanGradientUpdate ==
    LET W0 == batch_start.weights
        B0 == batch_start.biases
    IN  /\ pc = "examples"
            => /\ weights = W0 /\ biases = B0
               /\ \A l \in 1 .. Len(W0) :
                     /\ weight_gradient[l]
                          = PartialSum(W0, B0, mini_batches[b + 1], i, TRUE, l)
                     /\ bias_gradient[l]
                          = PartialSum(W0, B0, mini_batches[b + 1], i, FALSE, l)
        /\ (pc = "batch_loop" /\ b >= 1)
            => /\ Len(weights) = Len(W0) /\ Len(biases) = Len(B0)
               /\ \A l \in 1 .. Len(W0) :
                     /\ weights[l] = MeanStep(W0, B0, mini_batches[b], TRUE, l)
                     /\ biases[l] = MeanStep(W0, B0, mini_batches[b], FALSE, l)

\* the smaller last batch (1 row after a batch of 2) of a later epoch has
\* been applied and changed the weights
C9_Witness ==
    /\ pc = "batch_loop"
    /\ epoch >= 1
    /\ b = 2
    /\ Len(mini_batches[1]) = 2
    /\ Len(mini_batches[2]) = 1
    /\ weights # batch_start.weights
    /\ biases # batch_start.biases

\* C10: predict over a frame of N rows returns exactly N outputs, the j-th
\* being feed_forward of the j-th row under the parameters held at the call.
C10_PredictOrder ==
    ret.op = "predict"
        => /\ Len(ret.value) = Len(ret.X)
           /\ \A j \in 1 .. Len(ret.X) :
                 LET r == feed_forward(weights, biases, ret.X[j])
                 IN  r.ok /\ ret.value[j] = r.a

\* three rows predicted by a trained network, the outputs not all equal
C10_Witness ==
    /\ ret.op = "predict"
    /\ pc = "trained"
    /\ Len(ret.X) = 3
    /\ ret.value[1] # ret.value[2]
    /\ weights # InitWeights(layers_sizes)

====
